---- MODULE Spec2Model ----
(***************************************************************************)
(* A model of seffnet's utilities (src/src/seffnet/utils.py):              *)
(*   - split_training_testing_sets: the cluster-grouped train/test split,  *)
(*     its connectivity repair, de-duplication and edge-list file cache;   *)
(*   - create_subgraph: weight transform, shortest-path selection and      *)
(*     chemical relabeling;                                                *)
(*   - do_evaluation / do_optimization / train_model / repeat_experiment:  *)
(*     the order of the calls they make into the embedding libraries.      *)
(* Each function is a little state machine with its own program counter.   *)
(***************************************************************************)
EXTENDS Integers, Sequences, FiniteSets, TLC

(***************************************************************************)
(* Bounds of the model.                                                    *)
(***************************************************************************)
\* Nodes of the full graph are 1..NumNodes; a node's number is its identifier.
NumNodes == 3
\* The full graph holds at most MaxEdges distinct directed node pairs.
MaxEdges == 3

(***************************************************************************)
(* Program constants.                                                      *)
(***************************************************************************)
\* GroupShuffleSplit(test_size=.20, ...): one fifth of the groups, rounded up.
TestSizeInverse == 5

None == "None"
\* A path with no file, and a file holding the lines of an edge list.
NoFile == [exists |-> FALSE, lines |-> {}]
FileOf(lines) == [exists |-> TRUE, lines |-> lines]

\* The two module-level default output paths, and two caller-chosen ones.
DEFAULT_TRAINING_SET == "DEFAULT_TRAINING_SET"
DEFAULT_TESTING_SET == "DEFAULT_TESTING_SET"
CustomTrainPath == "custom_train.edgelist"
CustomTestPath == "custom_test.edgelist"
Paths == {DEFAULT_TRAINING_SET, DEFAULT_TESTING_SET, CustomTrainPath, CustomTestPath}

Nodes == 1..NumNodes

\* The cluster label given to an edge whose source has no cluster entry (0.0).
DefaultCluster == 0

(***************************************************************************)
(* networkx.Graph: a set of nodes and a set of undirected edges; an edge   *)
(* {u, v} is the set of its endpoints (a self-loop is a singleton).        *)
(***************************************************************************)
EmptyGraph == [nodes |-> {}, edges |-> {}]

add_node(g, u) == [g EXCEPT !.nodes = @ \cup {u}]

add_edge(g, u, v) == [nodes |-> g.nodes \cup {u, v}, edges |-> g.edges \cup {{u, v}}]

has_edge(g, u, v) == {u, v} \in g.edges

remove_edge(g, u, v) == [g EXCEPT !.edges = @ \ {{u, v}}]

\* nx.write_edgelist(g, path, data=False): one "u v" line per edge; a node
\* without edges leaves no line.
write_edgelist(g) == g.edges

\* nx.read_edgelist(path): the graph of the file's lines.
read_edgelist(lines) == [nodes |-> UNION lines, edges |-> lines]

\* The two endpoints of an edge as the tuple (edge[0], edge[1]) of an
\* iteration over g.edges().
Edge0(e) == CHOOSE u \in e : \A w \in e : u <= w
Edge1(e) == CHOOSE v \in e : \A w \in e : w <= v

(***************************************************************************)
(* State of split_training_testing_sets.                                   *)
(***************************************************************************)
VARIABLES
    rebuild,        \* argument rebuild
    g_train_path,   \* argument g_train_path
    g_test_path,    \* argument g_test_path
    files,          \* the file system: path -> NoFile or FileOf(lines)
    files0,         \* the file system as it was when the call started
    cluster_dict,   \* content of the cluster file: identifier -> label
    full_graph,     \* the pickled graph: a set of directed pairs <<source, target>>
    mapping_dict,   \* content of the mapping file: node -> node_id
    pc,             \* position in split_training_testing_sets
    reads,          \* the input files read so far
    df,             \* clustered_edgelist: rows [source, target, cluster]
    train_inds,     \* row numbers the group split put in the training side
    test_inds,      \* row numbers the group split put in the testing side
    g_train,        \* the training graph
    g_test,         \* the testing graph
    g_train0,       \* the training graph as built, before repair
    g_test0,        \* the testing graph as built, before repair
    unvisited,      \* testing edges the repair loop has not visited yet
    result          \* what the call returned or raised

varsSplit == <<rebuild, g_train_path, g_test_path, files, files0, cluster_dict,
               full_graph, mapping_dict, pc, reads, df, train_inds, test_inds,
               g_train, g_test, g_train0, g_test0, unvisited, result>>

(***************************************************************************)
(* State of create_subgraph.                                               *)
(***************************************************************************)
VARIABLES
    fullgraph,          \* the pickled multigraph: [nodes, edges], an edge is
                        \* [u, v, key, stored] with stored the pickled weight
    weight,             \* the 'weight' attribute of every edge, as it is now
    to_visit,           \* the edges the weight loop has still to yield
    weighted,           \* argument weighted
    source_desc,        \* arguments source_type, source_identifier, source_name
    target_desc,        \* arguments target_type, target_identifier, target_name
    mapping_df,         \* rows of the mapping file
    relabel_dict,       \* mapping_dict of create_subgraph: chemical -> named chemical
    source,             \* the source node
    target,             \* the target node
    paths,              \* all shortest paths from source to target
    selected,           \* the paths the node set is built from
    subgraph_nodes,     \* the nodes collected from the selected paths
    induced,            \* fullgraph.subgraph(subgraph_nodes), before relabeling
    sub_pc,             \* position in create_subgraph
    sub_result          \* what create_subgraph returned or raised

varsSub == <<fullgraph, weight, to_visit, weighted, source_desc, target_desc, mapping_df,
             relabel_dict, source, target, paths, selected, subgraph_nodes,
             induced, sub_pc, sub_result>>

(***************************************************************************)
(* State of do_evaluation, do_optimization, train_model, repeat_experiment.*)
(***************************************************************************)
VARIABLES
    fn,                   \* the function that was called
    prediction_task,      \* argument prediction_task
    labels_file,          \* argument labels_file
    method,               \* argument method
    training_model_path,  \* argument training_model_path
    embeddings_path,      \* argument embeddings_path
    evaluation_file,      \* argument evaluation_file
    n_trials,             \* argument n of repeat_experiment
    calls,                \* the library calls made so far, in order
    todo,                 \* the library calls the rest of the body will make
    trial,                \* the loop variable i of repeat_experiment
    all_results,          \* all_results of repeat_experiment
    ev_pc,                \* position in the called function
    ev_result             \* what the call returned or raised

varsEval == <<fn, prediction_task, labels_file, method, training_model_path,
              embeddings_path, evaluation_file, n_trials, calls, todo, trial,
              all_results, ev_pc, ev_result>>

vars == <<varsSplit, varsSub, varsEval>>

\* What an action of split_training_testing_sets leaves alone.
othersSplit == <<varsSub, varsEval>>

\* Content of a file left by an earlier run; every path holds another graph.
OldContent(path) ==
    IF path = DEFAULT_TRAINING_SET THEN {{901, 902}}
    ELSE IF path = DEFAULT_TESTING_SET THEN {{902, 903}}
    ELSE IF path = CustomTrainPath THEN {{911, 912}, {912, 913}}
    ELSE {{913, 914}}

exists(path) == files[path].exists

\* full_graph.edges(): the pairs in adjacency order (by source, then target).
RECURSIVE EdgeSeq(_)
EdgeSeq(S) ==
    IF S = {} THEN <<>>
    ELSE LET e == CHOOSE x \in S : \A y \in S :
                      x[1] < y[1] \/ (x[1] = y[1] /\ x[2] <= y[2])
         IN <<e>> \o EdgeSeq(S \ {e})

\* Line 433: the test that decides whether the cached files are returned.
UseCache ==
    ~rebuild /\ exists(DEFAULT_TRAINING_SET) /\ exists(DEFAULT_TESTING_SET)

\* Line 434: the two graphs returned on a cache hit.
CachedTraining == read_edgelist(files[DEFAULT_TRAINING_SET].lines)
CachedTesting == read_edgelist(files[DEFAULT_TESTING_SET].lines)

Outcome(kind, train, test, at) ==
    [kind |-> kind, train |-> train, test |-> test, at |-> at]

Running == Outcome("running", EmptyGraph, EmptyGraph, <<>>)

\* Lines 452-455: the row of one edge; mapping_dict[...] raises KeyError
\* when an endpoint has no entry.
HasMapping(e) == e[1] \in DOMAIN mapping_dict /\ e[2] \in DOMAIN mapping_dict

\* A default that gives every chemical without an entry a label of its own.
ClusterOfOwnGroup(identifier) ==
    IF identifier \notin DOMAIN cluster_dict THEN 0 - identifier ELSE cluster_dict[identifier]

\* Lines 452-455: the label of a source identifier.
ClusterOf(identifier) ==
    IF identifier \notin DOMAIN cluster_dict THEN DefaultCluster ELSE cluster_dict[identifier]

\* A row labelled by the cluster of its target.
RowOfByTarget(e) ==
    [source |-> mapping_dict[e[1]], target |-> mapping_dict[e[2]],
     cluster |-> ClusterOf(e[2])]

\* Lines 452-455: the row of an edge, labelled by the cluster of its source.
RowOf(e) ==
    [source |-> mapping_dict[e[1]], target |-> mapping_dict[e[2]],
     cluster |-> ClusterOf(e[1])]

\* Lines 457-458: GroupShuffleSplit(test_size=.20).split(groups=cluster):
\* the distinct labels are shuffled and ceil(0.2 * n_groups) of them become
\* the testing groups; it raises ValueError when no group is left to train on.
Groups == {df[i].cluster : i \in DOMAIN df}
NumTestGroups == (Cardinality(Groups) + TestSizeInverse - 1) \div TestSizeInverse
NumTrainGroups == Cardinality(Groups) - NumTestGroups

\* A split that ignores the groups: of each drawn label only the first row.
TestRowsUngrouped(testGroups) ==
    {i \in DOMAIN df : /\ df[i].cluster \in testGroups
                       /\ \A j \in DOMAIN df : df[j].cluster = df[i].cluster => i <= j}

\* The rows a choice of testing groups puts on the testing side.
TestRows(testGroups) == {i \in DOMAIN df : df[i].cluster \in testGroups}

\* Lines 461-466: a graph built by add_edge over the chosen rows.
RECURSIVE GraphOfRows(_, _)
GraphOfRows(g, inds) ==
    IF inds = {} THEN g
    ELSE LET i == CHOOSE x \in inds : \A y \in inds : x <= y
         IN GraphOfRows(add_edge(g, df[i].source, df[i].target), inds \ {i})

\* A repair that joins the missing first endpoint to itself.
RepairFirstToSelf(g, e) ==
    IF Edge0(e) \notin g.nodes
    THEN add_edge(add_node(g, Edge0(e)), Edge0(e), Edge0(e))
    ELSE g

\* Lines 469-474: the body of the repair loop for one testing edge.
RepairFirst(g, e) ==
    IF Edge0(e) \notin g.nodes
    THEN add_edge(add_node(g, Edge0(e)), Edge0(e), Edge1(e))
    ELSE g

\* A repair that looks at the first endpoint only.
RepairSecondSkipped(g, e) == g

RepairSecond(g, e) ==
    IF Edge1(e) \notin g.nodes
    THEN add_edge(add_node(g, Edge1(e)), Edge0(e), Edge1(e))
    ELSE g

\* A repair without the absence tests: every testing edge is copied.
RepairEdgeAlways(g, e) == add_edge(g, Edge0(e), Edge1(e))

RepairEdge(g, e) == RepairSecond(RepairFirst(g, e), e)

\* Lines 468-474: the repair loop run over the edges S in one fixed order.
RECURSIVE RepairLoop(_, _)
RepairLoop(g, S) ==
    IF S = {} THEN g
    ELSE LET e == CHOOSE x \in S : TRUE
         IN RepairLoop(RepairEdge(g, e), S \ {e})

\* A pruning test that misses an edge stored the other way round.
PruneEdgeOneWay(g, e) ==
    IF has_edge(g, Edge0(e), Edge1(e)) /\ Edge0(e) = Edge1(e)
    THEN remove_edge(g, Edge0(e), Edge1(e))
    ELSE g

\* Lines 476-477: the body of the pruning loop for one training edge.
PruneEdge(g, e) ==
    IF has_edge(g, Edge0(e), Edge1(e)) THEN remove_edge(g, Edge0(e), Edge1(e)) ELSE g

\* Lines 475-477: the pruning loop over the training graph's edges.
RECURSIVE Prune(_, _)
Prune(g, trainEdges) ==
    IF trainEdges = {} THEN g
    ELSE LET e == CHOOSE x \in trainEdges : TRUE
         IN Prune(PruneEdge(g, e), trainEdges \ {e})

(***************************************************************************)
(* Actions of split_training_testing_sets.                                 *)
(***************************************************************************)
\* Lines 433-434: the cached graphs are returned.
ReturnCached ==
    /\ UNCHANGED othersSplit
    /\ pc = "call"
    /\ UseCache
    /\ result' = Outcome("cached", CachedTraining, CachedTesting, <<>>)
    /\ pc' = "done"
    /\ UNCHANGED <<rebuild, g_train_path, g_test_path, files, files0, cluster_dict,
                   full_graph, mapping_dict, reads, df, train_inds, test_inds,
                   g_train, g_test, g_train0, g_test0, unvisited>>

\* Lines 435-449: the cluster file, the graph and the mapping file are read.
ReadInputs ==
    /\ UNCHANGED othersSplit
    /\ pc = "call"
    /\ ~UseCache
    /\ reads' = {"clustered_chemicals_file", "graph", "mapping_path"}
    /\ pc' = "dataframe"
    /\ UNCHANGED <<rebuild, g_train_path, g_test_path, files, files0, cluster_dict,
                   full_graph, mapping_dict, df, train_inds, test_inds,
                   g_train, g_test, g_train0, g_test0, unvisited, result>>

\* Lines 450-456: the splitting dataframe is built, one row per edge.
BuildDataframe ==
    /\ UNCHANGED othersSplit
    /\ pc = "dataframe"
    /\ LET es == EdgeSeq(full_graph)
       IN /\ \A i \in DOMAIN es : HasMapping(es[i])
          /\ df' = [i \in DOMAIN es |-> RowOf(es[i])]
    /\ pc' = "split"
    /\ UNCHANGED <<rebuild, g_train_path, g_test_path, files, files0, cluster_dict,
                   full_graph, mapping_dict, reads, train_inds, test_inds,
                   g_train, g_test, g_train0, g_test0, unvisited, result>>

\* A loop that skips the edges it cannot map instead of raising.
BuildDataframeSkipping ==
    /\ UNCHANGED othersSplit
    /\ pc = "dataframe"
    /\ LET es == EdgeSeq({e \in full_graph : HasMapping(e)})
       IN /\ \E e \in full_graph : ~HasMapping(e)
          /\ df' = [i \in DOMAIN es |-> RowOf(es[i])]
    /\ pc' = "split"
    /\ UNCHANGED <<rebuild, g_train_path, g_test_path, files, files0, cluster_dict,
                   full_graph, mapping_dict, reads, train_inds, test_inds,
                   g_train, g_test, g_train0, g_test0, unvisited, result>>

\* Lines 453/455: mapping_dict[...] raises KeyError at the first edge with an
\* endpoint that has no entry.
BuildDataframeFails ==
    /\ UNCHANGED othersSplit
    /\ pc = "dataframe"
    /\ LET es == EdgeSeq(full_graph)
           bad == {i \in DOMAIN es : ~HasMapping(es[i])}
       IN /\ bad # {}
          /\ LET first == CHOOSE i \in bad : \A j \in bad : i <= j
             IN result' = Outcome("KeyError", EmptyGraph, EmptyGraph, es[first])
    /\ pc' = "done"
    /\ UNCHANGED <<rebuild, g_train_path, g_test_path, files, files0, cluster_dict,
                   full_graph, mapping_dict, reads, df, train_inds, test_inds,
                   g_train, g_test, g_train0, g_test0, unvisited>>

\* Lines 457-460: the group split; which groups are drawn depends on the
\* shuffle, so every draw of the right size is possible.
GroupSplit ==
    /\ UNCHANGED othersSplit
    /\ pc = "split"
    /\ NumTrainGroups > 0
    /\ \E testGroups \in SUBSET Groups :
          /\ Cardinality(testGroups) = NumTestGroups
          /\ test_inds' = TestRows(testGroups)
          /\ train_inds' = DOMAIN df \ TestRows(testGroups)
    /\ pc' = "build"
    /\ UNCHANGED <<rebuild, g_train_path, g_test_path, files, files0, cluster_dict,
                   full_graph, mapping_dict, reads, df,
                   g_train, g_test, g_train0, g_test0, unvisited, result>>

\* Lines 457-458: with fewer than two groups the split raises ValueError.
GroupSplitFails ==
    /\ UNCHANGED othersSplit
    /\ pc = "split"
    /\ NumTrainGroups <= 0
    /\ result' = Outcome("ValueError", EmptyGraph, EmptyGraph, <<>>)
    /\ pc' = "done"
    /\ UNCHANGED <<rebuild, g_train_path, g_test_path, files, files0, cluster_dict,
                   full_graph, mapping_dict, reads, df, train_inds, test_inds,
                   g_train, g_test, g_train0, g_test0, unvisited>>

\* Lines 461-466: the two graphs are built from their rows.
BuildGraphs ==
    /\ UNCHANGED othersSplit
    /\ pc = "build"
    /\ LET tr == GraphOfRows(EmptyGraph, train_inds)
           te == GraphOfRows(EmptyGraph, test_inds)
       IN /\ g_train' = tr
          /\ g_test' = te
          /\ g_train0' = tr
          /\ g_test0' = te
          /\ unvisited' = te.edges
    /\ pc' = "repair"
    /\ UNCHANGED <<rebuild, g_train_path, g_test_path, files, files0, cluster_dict,
                   full_graph, mapping_dict, reads, df, train_inds, test_inds, result>>

\* Lines 468-474: one pass of the repair loop.  The loop visits the testing
\* edges in the graph's adjacency order; the model allows every order.
RepairVisit ==
    /\ UNCHANGED othersSplit
    /\ pc = "repair"
    /\ \E e \in unvisited :
          /\ g_train' = RepairEdge(g_train, e)
          /\ unvisited' = unvisited \ {e}
    /\ UNCHANGED <<rebuild, g_train_path, g_test_path, files, files0, cluster_dict,
                   full_graph, mapping_dict, pc, reads, df, train_inds, test_inds,
                   g_test, g_train0, g_test0, result>>

\* A pruning loop that runs over the training graph as it was before repair.
PruneTestingBeforeRepair ==
    /\ UNCHANGED othersSplit
    /\ pc = "repair"
    /\ unvisited = {}
    /\ g_test' = Prune(g_test, g_train0.edges)
    /\ pc' = "write_train"
    /\ UNCHANGED <<rebuild, g_train_path, g_test_path, files, files0, cluster_dict,
                   full_graph, mapping_dict, reads, df, train_inds, test_inds,
                   g_train, g_train0, g_test0, unvisited, result>>

\* Lines 475-477: after the repair loop, the pruning loop.
PruneTesting ==
    /\ UNCHANGED othersSplit
    /\ pc = "repair"
    /\ unvisited = {}
    /\ g_test' = Prune(g_test, g_train.edges)
    /\ pc' = "write_train"
    /\ UNCHANGED <<rebuild, g_train_path, g_test_path, files, files0, cluster_dict,
                   full_graph, mapping_dict, reads, df, train_inds, test_inds,
                   g_train, g_train0, g_test0, unvisited, result>>

\* Line 478.
WriteTraining ==
    /\ UNCHANGED othersSplit
    /\ pc = "write_train"
    /\ files' = [files EXCEPT ![g_train_path] = FileOf(write_edgelist(g_train))]
    /\ pc' = "write_test"
    /\ UNCHANGED <<rebuild, g_train_path, g_test_path, files0, cluster_dict,
                   full_graph, mapping_dict, reads, df, train_inds, test_inds,
                   g_train, g_test, g_train0, g_test0, unvisited, result>>

\* Lines 479-480.
WriteTestingAndReturn ==
    /\ UNCHANGED othersSplit
    /\ pc = "write_test"
    /\ files' = [files EXCEPT ![g_test_path] = FileOf(write_edgelist(g_test))]
    /\ result' = Outcome("ok", g_train, g_test, <<>>)
    /\ pc' = "done"
    /\ UNCHANGED <<rebuild, g_train_path, g_test_path, files0, cluster_dict,
                   full_graph, mapping_dict, reads, df, train_inds, test_inds,
                   g_train, g_test, g_train0, g_test0, unvisited>>

\* split_training_testing_sets is not running.
IdleSplit ==
    /\ rebuild = FALSE
    /\ g_train_path = DEFAULT_TRAINING_SET
    /\ g_test_path = DEFAULT_TESTING_SET
    /\ files = [p \in Paths |-> NoFile]
    /\ files0 = files
    /\ cluster_dict = <<>>
    /\ full_graph = {}
    /\ mapping_dict = <<>>
    /\ pc = "idle"
    /\ reads = {}
    /\ df = <<>>
    /\ train_inds = {}
    /\ test_inds = {}
    /\ g_train = EmptyGraph
    /\ g_test = EmptyGraph
    /\ g_train0 = EmptyGraph
    /\ g_test0 = EmptyGraph
    /\ unvisited = {}
    /\ result = Running

\* create_subgraph is not running.
IdleSub ==
    /\ fullgraph = [nodes |-> {}, edges |-> {}]
    /\ weight = <<>>
    /\ to_visit = {}
    /\ weighted = FALSE
    /\ source_desc = <<>>
    /\ target_desc = <<>>
    /\ mapping_df = <<>>
    /\ relabel_dict = <<>>
    /\ source = <<>>
    /\ target = <<>>
    /\ paths = {}
    /\ selected = {}
    /\ subgraph_nodes = {}
    /\ induced = [nodes |-> {}, edges |-> {}]
    /\ sub_pc = "idle"
    /\ sub_result = [kind |-> "idle", nodes |-> {}, edges |-> {}]

\* None of the training functions is running.
IdleEval ==
    /\ fn = "idle"
    /\ prediction_task = None
    /\ labels_file = None
    /\ method = None
    /\ training_model_path = None
    /\ embeddings_path = None
    /\ evaluation_file = None
    /\ n_trials = 0
    /\ calls = <<>>
    /\ todo = <<>>
    /\ trial = 0
    /\ all_results = <<>>
    /\ ev_pc = "idle"
    /\ ev_result = [kind |-> "idle", value |-> <<>>]

(***************************************************************************)
(* Inputs of split_training_testing_sets.                                  *)
(***************************************************************************)
\* Graphs of at most MaxEdges directed pairs of different nodes.
FullGraphs ==
    {E \in SUBSET {e \in Nodes \X Nodes : e[1] # e[2]} : Cardinality(E) <= MaxEdges}

\* Graphs with an edge from a node to itself, alone or beside one other edge.
SelfLoopGraphs == {{<<k, k>>, e} : k \in Nodes, e \in Nodes \X Nodes}

\* Cluster files: any identifiers may have an entry.  Only the equality of
\* labels is ever used, so labels are numbered in order of first use.
PrecedingLabels(f, n) == {f[m] : m \in {k \in DOMAIN f : k < n}}
InOrderOfUse(f) ==
    \A n \in DOMAIN f : \A l \in 1..(f[n] - 1) : l \in PrecedingLabels(f, n)
ClusterDicts ==
    {f \in UNION {[D -> 1..NumNodes] : D \in SUBSET Nodes} : InOrderOfUse(f)}

\* Mapping files: node n has node_id 10 * n.
MappingOf(M) == [n \in M |-> 10 * n]
FullMapping == MappingOf(Nodes)
PartialMappings == {MappingOf(Nodes \ {k}) : k \in Nodes}

\* File systems: each path holds an older edge list or nothing.
FileSystems == {[p \in Paths |-> IF p \in P THEN FileOf(OldContent(p)) ELSE NoFile] : P \in SUBSET Paths}
AllFiles == [p \in Paths |-> FileOf(OldContent(p))]
NoFiles == [p \in Paths |-> NoFile]

\* Scenario A of the specification: chem1 -> prot1 and chem2 -> prot1 in two clusters.
ScenarioGraph == {<<1, NumNodes>>, <<2, NumNodes>>}
ScenarioClusters == [n \in {1, 2} |-> n]

InitSplit ==
    /\ IdleSub
    /\ IdleEval
    /\ \/ \* every cache situation, on one graph
          /\ rebuild \in BOOLEAN
          /\ g_train_path \in {DEFAULT_TRAINING_SET, CustomTrainPath}
          /\ g_test_path \in {DEFAULT_TESTING_SET, CustomTestPath}
          /\ files \in FileSystems
          /\ full_graph = ScenarioGraph
          /\ cluster_dict = ScenarioClusters
          /\ mapping_dict = FullMapping
       \/ \* every graph and cluster file, forced rebuild over existing files
          /\ rebuild = TRUE
          /\ g_train_path = CustomTrainPath
          /\ g_test_path = CustomTestPath
          /\ files = AllFiles
          /\ full_graph \in FullGraphs \cup SelfLoopGraphs
          /\ cluster_dict \in ClusterDicts
          /\ mapping_dict = FullMapping
       \/ \* every graph, with one node missing from the mapping file
          /\ rebuild \in BOOLEAN
          /\ g_train_path = DEFAULT_TRAINING_SET
          /\ g_test_path = DEFAULT_TESTING_SET
          /\ files = IF rebuild THEN AllFiles ELSE NoFiles
          /\ full_graph \in FullGraphs
          /\ cluster_dict = ScenarioClusters
          /\ mapping_dict \in PartialMappings
    /\ files0 = files
    /\ pc = "call"
    /\ reads = {}
    /\ df = <<>>
    /\ train_inds = {}
    /\ test_inds = {}
    /\ g_train = EmptyGraph
    /\ g_test = EmptyGraph
    /\ g_train0 = EmptyGraph
    /\ g_test0 = EmptyGraph
    /\ unvisited = {}
    /\ result = Running

NextSplit ==
    \/ ReturnCached
    \/ ReadInputs
    \/ BuildDataframe
    \/ BuildDataframeFails
    \/ GroupSplit
    \/ GroupSplitFails
    \/ BuildGraphs
    \/ RepairVisit
    \/ PruneTesting
    \/ WriteTraining
    \/ WriteTestingAndReturn

SpecSplit == InitSplit /\ [][NextSplit]_vars

(***************************************************************************)
(* Properties of split_training_testing_sets.                              *)
(***************************************************************************)
Returned == pc = "done" /\ result.kind = "ok"

\* The undirected node-id pair of a dataframe row.
PairOfRow(i) == {df[i].source, df[i].target}

\* C1: after a recomputed split, no undirected node-id pair is an edge of
\* both the returned training graph and the returned testing graph.
C1_Disjoint ==
    Returned => result.train.edges \cap result.test.edges = {}

\* A recomputed split in which repair copied a testing edge into the
\* training graph, so that pruning had an overlap to remove.
C1_Witness ==
    /\ Returned
    /\ g_test0.edges \cap (result.train.edges \ g_train0.edges) # {}

\* C2: after a recomputed split, every node of the returned testing graph,
\* nodes without edges included, is a node of the returned training graph.
C2_TestNodesInTrain ==
    Returned => result.test.nodes \subseteq result.train.nodes

\* A recomputed split whose testing graph had a node unknown to the training
\* graph as built, and keeps a node that pruning left without any edge.
C2_Witness ==
    /\ Returned
    /\ g_test0.nodes \ g_train0.nodes # {}
    /\ \E n \in result.test.nodes : \A e \in result.test.edges : n \notin e

\* C3 as stated: in the returned graphs no cluster label has edges in both
\* the training graph and the testing graph.
C3_NoLabelInBoth ==
    Returned =>
        \A c \in Groups :
            ~ /\ \E i \in DOMAIN df : df[i].cluster = c /\ PairOfRow(i) \in result.train.edges
              /\ \E j \in DOMAIN df : df[j].cluster = c /\ PairOfRow(j) \in result.test.edges

\* C3 as amended: the edges of a label drawn for training are all in the
\* training graph and none in the testing graph, so every label with an edge
\* in the testing graph was drawn for testing as a whole; an edge of a label
\* drawn for testing is in exactly one of the two graphs, and in the training
\* graph only if a training row joins the same node pair or one of its
\* endpoints was missing from the training graph as built (repair copied it).
C3_LabelsAfterRepair ==
    Returned =>
        /\ \A i \in DOMAIN df :
              PairOfRow(i) \in result.test.edges =>
                  \A j \in DOMAIN df : df[j].cluster = df[i].cluster => j \in test_inds
        /\ \A i \in train_inds :
              PairOfRow(i) \in result.train.edges /\ PairOfRow(i) \notin result.test.edges
        /\ \A i \in test_inds :
              /\ (PairOfRow(i) \in result.train.edges) # (PairOfRow(i) \in result.test.edges)
              /\ PairOfRow(i) \in result.train.edges =>
                    \/ PairOfRow(i) \in g_train0.edges
                    \/ \E n \in PairOfRow(i) : n \notin g_train0.nodes

\* A recomputed split in which one testing label has an edge that repair
\* moved to the training graph and another edge that stayed for testing.
C3_Witness ==
    /\ Returned
    /\ \E i, j \in test_inds :
          /\ df[i].cluster = df[j].cluster
          /\ PairOfRow(i) \in result.train.edges \ g_train0.edges
          /\ PairOfRow(j) \in result.test.edges

\* C4 as stated: with rebuild false and files at both caller-given output
\* paths the call reads and writes nothing and returns the graphs of those
\* two files; otherwise it recomputes the split.
C4_CacheAtCallerPaths ==
    pc = "done" =>
        IF ~rebuild /\ files0[g_train_path].exists /\ files0[g_test_path].exists
        THEN /\ result.kind = "cached"
             /\ reads = {}
             /\ files = files0
             /\ result.train = read_edgelist(files0[g_train_path].lines)
             /\ result.test = read_edgelist(files0[g_test_path].lines)
        ELSE /\ result.kind # "cached"
             /\ reads # {}

\* C8: once the computation has started (the cache was not used) on a graph
\* with an edge whose endpoint has no mapping entry, the call never gets
\* past the dataframe loop, ends with KeyError at the first such edge,
\* returns no graphs and leaves every file as it was.
C8_MissingMappingFails ==
    (reads # {} /\ \E e \in full_graph : ~HasMapping(e)) =>
        /\ files = files0
        /\ pc \in {"dataframe", "done"}
        /\ pc = "done" =>
              /\ result.kind = "KeyError"
              /\ result.at \in full_graph /\ ~HasMapping(result.at)
              /\ result.train = EmptyGraph /\ result.test = EmptyGraph

\* A forced rebuild over existing output files that failed on an unmapped
\* endpoint after at least one edge had been mapped.
C8_Witness ==
    /\ pc = "done"
    /\ result.kind = "KeyError"
    /\ rebuild
    /\ files0[g_train_path].exists /\ files0[g_test_path].exists
    /\ \E e \in full_graph : HasMapping(e)

\* C12: as the group split leaves them, before repair (pc = "build"; no later
\* step changes the index sets), the rows that share a cluster label are all
\* in train_inds or all in test_inds, and rows with the same source have the
\* same label whatever their targets are.
C12_LabelsWholeBeforeRepair ==
    pc = "build" =>
        /\ train_inds \cup test_inds = DOMAIN df
        /\ train_inds \cap test_inds = {}
        /\ \A i, j \in DOMAIN df :
              /\ df[i].cluster = df[j].cluster => (i \in test_inds <=> j \in test_inds)
              /\ df[i].source = df[j].source => df[i].cluster = df[j].cluster

\* A split with two rows of one label on one side, and two rows with the same
\* target on different sides.
C12_Witness ==
    /\ pc = "build"
    /\ \E i, j \in DOMAIN df :
          i # j /\ df[i].cluster = df[j].cluster /\ df[i].target # df[j].target
    /\ \E i \in train_inds, j \in test_inds : df[i].target = df[j].target

\* The rows whose source chemical has no entry in the cluster file.
Unclustered == {i \in DOMAIN df : EdgeSeq(full_graph)[i][1] \notin DOMAIN cluster_dict}

\* C13 as stated: a row whose source has no cluster entry is labelled 0.0 and
\* that label is the chemical's own group: no row of another source shares it.
C13_DefaultIsOwnGroup ==
    pc = "split" =>
      \A i \in Unclustered :
        /\ df[i].cluster = DefaultCluster
        /\ \A j \in DOMAIN df : df[j].cluster = df[i].cluster => df[j].source = df[i].source

\* C13 as amended: every row whose source has no cluster entry is labelled
\* 0.0, so all such rows, of whatever source chemicals, form one group and the
\* split puts them on the same side (seen when the dataframe is built and when
\* the split is made; neither changes afterwards).
C13_DefaultIsOneGroup ==
    pc \in {"split", "build"} =>
        \A i, j \in Unclustered :
            /\ df[i].cluster = DefaultCluster
            /\ df[i].cluster = df[j].cluster
            /\ pc = "build" => (i \in test_inds <=> j \in test_inds)

\* The split is made, two different sources without an entry have their rows
\* on one side, and a row of a labelled source is on the other side.
C13_Witness ==
    /\ pc = "build"
    /\ \E i, j \in Unclustered : df[i].source # df[j].source
    /\ \E i \in Unclustered, k \in DOMAIN df : (i \in test_inds) # (k \in test_inds)

\* C14: while repair is visiting the testing edges the testing graph loses no
\* edge; pruning runs against the fully repaired training graph, so every edge
\* repair added to the training graph is absent from the final testing graph;
\* and no edge-list file is written before pruning has finished.
C14_RepairThenPrune ==
    /\ pc = "repair" => g_test = g_test0
    /\ (pc \in {"write_train", "write_test"} \/ (Returned /\ reads # {})) =>
          /\ unvisited = {}
          /\ g_test.nodes = g_test0.nodes
          /\ g_test.edges = g_test0.edges \ g_train.edges
          /\ \A e \in g_train.edges \ g_train0.edges : e \notin g_test.edges
    /\ files # files0 => pc \in {"write_test", "done"}
    /\ (Returned /\ reads # {}) =>
          /\ files[g_train_path] = FileOf(write_edgelist(g_train))
          /\ files[g_test_path] = FileOf(write_edgelist(g_test))

\* A finished split in which repair added an edge to the training graph,
\* pruning removed it from the testing graph, and other testing edges remain.
C14_Witness ==
    /\ Returned
    /\ reads # {}
    /\ g_train.edges \ g_train0.edges # {}
    /\ g_test.edges # g_test0.edges
    /\ g_test.edges # {}
    /\ files # files0

\* The undirected node-id pairs of the full graph's edges.
MappedPairs == {PairOfRow(i) : i \in DOMAIN df}

\* C16: a recomputed split neither loses nor invents edges: the edges of the
\* returned training and testing graphs together are exactly the node-id
\* pairs of the full graph's edges, each pair is in exactly one of the two
\* graphs, and the training graph keeps every edge it had before repair.
C16_EdgesConserved ==
    /\ pc = "repair" => g_train0.edges \subseteq g_train.edges
    /\ (Returned /\ reads # {}) =>
          /\ result.train.edges \cup result.test.edges = MappedPairs
          /\ \A e \in MappedPairs : (e \in result.train.edges) # (e \in result.test.edges)
          /\ g_train0.edges \subseteq result.train.edges

\* A finished split of three edges in which repair moved an edge and both
\* returned graphs have edges.
C16_Witness ==
    /\ Returned
    /\ reads # {}
    /\ Cardinality(MappedPairs) = MaxEdges
    /\ result.train.edges # g_train0.edges
    /\ result.test.edges # {}

\* C17 as stated: whatever the order in which repair visited the testing
\* edges, the final training and testing edge sets are those of any other
\* order, here the one fixed order of RepairLoop.
C17_RepairOrderFree ==
    (Returned /\ reads # {}) =>
        /\ result.train.edges = RepairLoop(g_train0, g_test0.edges).edges
        /\ result.test.edges = g_test0.edges \ RepairLoop(g_train0, g_test0.edges).edges

\* Every node the training graph lacks before repair is an endpoint of one
\* testing edge only.
MissingNodesUnshared ==
    \A m \in g_test0.nodes \ g_train0.nodes :
        Cardinality({e \in g_test0.edges : m \in e}) = 1

\* C17 as amended: for the same graphs before repair, every visiting order
\* yields the same final training node set and the same union of the two final
\* edge sets; when no node missing from the training graph is shared by two
\* testing edges it also yields the same two edge sets, the training graph
\* gaining exactly the testing edges that have a missing endpoint.
C17_RepairOrderFreeWhenUnshared ==
    (Returned /\ reads # {}) =>
        /\ result.train.nodes = g_train0.nodes \cup g_test0.nodes
        /\ result.train.edges \cup result.test.edges = g_train0.edges \cup g_test0.edges
        /\ MissingNodesUnshared =>
              /\ result.train.edges =
                    g_train0.edges \cup
                    {e \in g_test0.edges : ~(e \subseteq g_train0.nodes)}
              /\ result.test.edges = g_test0.edges \ result.train.edges

\* A finished split of several testing edges, none sharing a missing node, of
\* which repair copied one and passed over another.
C17_Witness ==
    /\ Returned
    /\ reads # {}
    /\ MissingNodesUnshared
    /\ Cardinality(g_test0.edges) >= 2
    /\ \E e \in g_test0.edges : e \in result.train.edges /\ e \notin g_train0.edges
    /\ \E e \in g_test0.edges : e \subseteq g_train0.nodes

(***************************************************************************)
(* create_subgraph.                                                        *)
(***************************************************************************)
\* Weights are counted in tenths: 0.9 is 9 and the 1 of "1 - weight" is UnitWeight.
UnitWeight == 10
\* Line 588: len(paths) > 100.
SamplingThreshold == 100
\* Line 589: random.sample(paths, 10).
SampleSize == 10
\* An empty cell of the mapping file (NaN) and a field a node does not carry.
Absent == 0

\* Bounds: parallel edges per node pair, nodes per layer of a layered graph,
\* and the strides of the modelled random samples.
MaxParallel == 2
MaxWidth == 5
MaxStride == 2

\* The stored weights a pickled edge may carry (0.2 and 0.9).
WeightValues == {2, 9}

\* A pybel.dsl node: its class, namespace, identifier and name.
Entity(function, namespace, identifier, name) ==
    [function |-> function, namespace |-> namespace,
     identifier |-> identifier, name |-> name]

\* Abundance(namespace='pubchem.compound', identifier=...)
ChemicalById(identifier) == Entity("Abundance", "pubchem.compound", identifier, Absent)
\* Abundance(namespace='pubchem.compound', name=...)
ChemicalByName(name) == Entity("Abundance", "pubchem.compound", Absent, name)

\* A chain of tests whose last branch also takes "gene".
EntityTypesWithGene == {"chemical", "protein", "phenotype", "gene"}

\* Lines 566-571 and 574-579: the types the chain of tests knows.
EntityTypes == {"chemical", "protein", "phenotype"}

Desc(type, identifier, name) == [type |-> type, identifier |-> identifier, name |-> name]

\* Lines 566-571 and 574-579: the node a valid descriptor stands for.
Resolve(d) ==
    IF d.type = "chemical" THEN ChemicalById(d.identifier)
    ELSE IF d.type = "protein" THEN Entity("Protein", "uniprot", d.identifier, d.name)
    ELSE Entity("Pathology", "umls", d.identifier, d.name)

\* The function f, with all its values computed.
Eager(f) == f @@ <<>>

\* Line 550, for every key of one node pair: weight = 1 - weight.
TransformPair(w, u, v) ==
    Eager([e \in DOMAIN w |-> IF e.u = u /\ e.v = v THEN UnitWeight - w[e] ELSE w[e]])

\* Line 556: dropna(how='any') keeps the rows without any empty cell.
HasNoNaN(row) ==
    /\ row.namespace # ""
    /\ row.identifier # Absent
    /\ row.name # Absent
    /\ row.node_id # Absent

dropna(rows) == SelectSeq(rows, HasNoNaN)

\* Lines 558-565: the relabeling dictionary, a later row replacing an earlier
\* one.  The test of line 561 never fires: no cell read from the file is None.
RECURSIVE BuildRelabelDict(_, _)
BuildRelabelDict(d, rows) ==
    IF rows = <<>> THEN d
    ELSE LET row == Head(rows)
             key == ChemicalById(row.identifier)
         IN IF row.namespace # "pubchem.compound"
            THEN BuildRelabelDict(d, Tail(rows))
            ELSE BuildRelabelDict(
                     Eager([x \in DOMAIN d \cup {key} |->
                         IF x = key THEN ChemicalByName(row.name) ELSE d[x]]),
                     Tail(rows))

\* nx.relabel_nodes: a node with an entry is renamed, any other is kept.
Relabel(n) == IF n \in DOMAIN relabel_dict THEN relabel_dict[n] ELSE n

\* fullgraph.to_undirected(): the edges between two nodes, in either direction.
Between(n, m) ==
    {e \in fullgraph.edges : (e.u = n /\ e.v = m) \/ (e.u = m /\ e.v = n)}

Min(S) == CHOOSE x \in S : \A y \in S : x <= y

\* The cost of a step: the smallest weight of the parallel edges when
\* weighted (weight='weight'), one hop otherwise.
StepCost(n, m) == IF weighted THEN Min({weight[e] : e \in Between(n, m)}) ELSE 1

\* Larger than the cost of any path.
Infinity == UnitWeight * (Cardinality(fullgraph.nodes) + 1)

\* Distances from the source after k rounds of relaxation.
RECURSIVE Distances(_, _, _)
Distances(k, adj, cost) ==
    IF k = 0
    THEN Eager([n \in fullgraph.nodes |-> IF n = source THEN 0 ELSE Infinity])
    ELSE LET prev == Distances(k - 1, adj, cost)
         IN Eager([n \in fullgraph.nodes |->
                Min({prev[n]} \cup {prev[m] + cost[<<m, n>>] : m \in adj[n]})])

\* The shortest paths from the source to n, given the final distances.
RECURSIVE PathsTo(_, _, _, _)
PathsTo(n, dist, adj, cost) ==
    IF n = source THEN {<<source>>}
    ELSE UNION {{Append(q, n) : q \in PathsTo(m, dist, adj, cost)} :
                m \in {x \in adj[n] : dist[x] + cost[<<x, n>>] = dist[n]}}

\* Lines 584/586: nx.all_shortest_paths(fullgraph_undirected, source, target);
\* the empty set stands for "no path" (the library raises).
AllShortestPaths ==
    IF source \notin fullgraph.nodes \/ target \notin fullgraph.nodes THEN {}
    ELSE LET adj == Eager([n \in fullgraph.nodes |->
                        {m \in fullgraph.nodes : m # n /\ Between(n, m) # {}}])
             cost == Eager([pr \in fullgraph.nodes \X fullgraph.nodes |->
                        IF pr[2] \in adj[pr[1]] THEN StepCost(pr[1], pr[2]) ELSE Infinity])
             dist == Distances(Cardinality(fullgraph.nodes), adj, cost)
         IN IF dist[target] >= Infinity THEN {}
            ELSE PathsTo(target, dist, adj, cost)

\* The elements of a small set in one fixed order.
RECURSIVE SetToSeq(_)
SetToSeq(S) ==
    IF S = {} THEN <<>>
    ELSE LET x == CHOOSE y \in S : TRUE IN <<x>> \o SetToSeq(S \ {x})

\* The position of each node in one fixed order of the graph's nodes.
NodeIndex ==
    LET s == SetToSeq(fullgraph.nodes)
    IN Eager([m \in fullgraph.nodes |-> CHOOSE i \in DOMAIN s : s[i] = m])

\* Path q comes before path r: shorter first, then by the first node that differs.
Precedes(q, r, idx) ==
    \/ Len(q) < Len(r)
    \/ /\ Len(q) = Len(r)
       /\ \E i \in DOMAIN q : /\ idx[q[i]] < idx[r[i]]
                              /\ \A j \in 1..(i - 1) : q[j] = r[j]

\* Lines 584/586: the list the comprehension builds from the paths found; the
\* draws below range over every starting position, so any one order serves.
PathList(found) ==
    LET idx == NodeIndex
        rank == Eager([q \in found |-> Cardinality({r \in found : Precedes(r, q, idx)})])
    IN Eager([k \in 1..Cardinality(found) |-> CHOOSE q \in found : rank[q] = k - 1])

\* The test of line 588, with a variant that samples already at the threshold.
ExceedsCapInclusive(n) == n >= SamplingThreshold

ExceedsCap(n) == n > SamplingThreshold

\* random.sample(paths, 10): SampleSize distinct positions of the list.  Of
\* all the draws the model takes those with a start and a fixed stride.
Sample(list, start, stride) ==
    {list[((start + i * stride) % Len(list)) + 1] : i \in 0..(SampleSize - 1)}

\* Lines 587-599: the distinct nodes of the chosen paths.
NodesOf(chosen) == UNION {{q[i] : i \in DOMAIN q} : q \in chosen}

\* A subgraph that keeps only the edges walked by the selected paths.
SubgraphOfPathEdges(nodes) ==
    [nodes |-> nodes \cap fullgraph.nodes,
     edges |-> {e \in fullgraph.edges :
                  \E q \in selected : \E i \in 1..(Len(q) - 1) :
                      {e.u, e.v} = {q[i], q[i + 1]}}]

\* Line 600: fullgraph.subgraph(subgraph_nodes).
Subgraph(nodes) ==
    [nodes |-> nodes \cap fullgraph.nodes,
     edges |-> {e \in fullgraph.edges : e.u \in nodes /\ e.v \in nodes}]

SubOutcome(kind, g) == [kind |-> kind, nodes |-> g.nodes, edges |-> g.edges]

NoGraph == [nodes |-> {}, edges |-> {}]

(***************************************************************************)
(* Actions of create_subgraph.                                             *)
(***************************************************************************)
othersSub == <<varsSplit, varsEval>>

\* Lines 548-550, one pass of the outer loop: fullgraph.edges() of a
\* multigraph yields the pair (u, v) once per parallel edge, and each time
\* the inner loop rewrites the weight of every key of that pair.
TransformVisit ==
    /\ sub_pc = "call"
    /\ to_visit # {}
    /\ LET e == CHOOSE x \in to_visit : TRUE
       IN /\ weight' = TransformPair(weight, e.u, e.v)
          /\ to_visit' = to_visit \ {e}
    /\ UNCHANGED <<fullgraph, weighted, source_desc, target_desc, mapping_df,
                   relabel_dict, source, target, paths, selected, subgraph_nodes,
                   induced, sub_pc, sub_result>>
    /\ UNCHANGED othersSub

\* Lines 551-565, once the weight loop has ended.
ReadMapping ==
    /\ sub_pc = "call"
    /\ to_visit = {}
    /\ relabel_dict' = BuildRelabelDict(<<>>, dropna(mapping_df))
    /\ sub_pc' = "source"
    /\ UNCHANGED <<fullgraph, weight, to_visit, weighted, source_desc, target_desc, mapping_df,
                   source, target, paths, selected, subgraph_nodes, induced, sub_result>>
    /\ UNCHANGED othersSub

\* Lines 566-571.
ResolveSource ==
    /\ sub_pc = "source"
    /\ source_desc.type \in EntityTypes
    /\ source' = Resolve(source_desc)
    /\ sub_pc' = "target"
    /\ UNCHANGED <<fullgraph, weight, to_visit, weighted, source_desc, target_desc, mapping_df,
                   relabel_dict, target, paths, selected, subgraph_nodes, induced,
                   sub_result>>
    /\ UNCHANGED othersSub

\* Lines 572-573.
ResolveSourceFails ==
    /\ sub_pc = "source"
    /\ source_desc.type \notin EntityTypes
    /\ sub_result' = SubOutcome("Source type is not valid!", NoGraph)
    /\ sub_pc' = "done"
    /\ UNCHANGED <<fullgraph, weight, to_visit, weighted, source_desc, target_desc, mapping_df,
                   relabel_dict, source, target, paths, selected, subgraph_nodes, induced>>
    /\ UNCHANGED othersSub

\* Lines 574-579.
ResolveTarget ==
    /\ sub_pc = "target"
    /\ target_desc.type \in EntityTypes
    /\ target' = Resolve(target_desc)
    /\ sub_pc' = "search"
    /\ UNCHANGED <<fullgraph, weight, to_visit, weighted, source_desc, target_desc, mapping_df,
                   relabel_dict, source, paths, selected, subgraph_nodes, induced,
                   sub_result>>
    /\ UNCHANGED othersSub

\* Lines 580-581.
ResolveTargetFails ==
    /\ sub_pc = "target"
    /\ target_desc.type \notin EntityTypes
    /\ sub_result' = SubOutcome("Target type is not valid!", NoGraph)
    /\ sub_pc' = "done"
    /\ UNCHANGED <<fullgraph, weight, to_visit, weighted, source_desc, target_desc, mapping_df,
                   relabel_dict, source, target, paths, selected, subgraph_nodes, induced>>
    /\ UNCHANGED othersSub

\* Lines 582-586.
ShortestPaths ==
    /\ sub_pc = "search"
    /\ LET found == AllShortestPaths
       IN /\ found # {}
          /\ paths' = found
    /\ sub_pc' = "select"
    /\ UNCHANGED <<fullgraph, weight, to_visit, weighted, source_desc, target_desc, mapping_df,
                   relabel_dict, source, target, selected, subgraph_nodes, induced,
                   sub_result>>
    /\ UNCHANGED othersSub

\* Lines 584/586: the search raises when there is no path.
ShortestPathsFails ==
    /\ sub_pc = "search"
    /\ AllShortestPaths = {}
    /\ sub_result' = SubOutcome("NetworkXNoPath", NoGraph)
    /\ sub_pc' = "done"
    /\ UNCHANGED <<fullgraph, weight, to_visit, weighted, source_desc, target_desc, mapping_df,
                   relabel_dict, source, target, paths, selected, subgraph_nodes, induced>>
    /\ UNCHANGED othersSub

\* Lines 588-593.
SamplePaths ==
    /\ sub_pc = "select"
    /\ ExceedsCap(Cardinality(paths))
    /\ \E list \in {PathList(paths)} :
          \E start \in 0..(Len(list) - 1), stride \in 1..MaxStride :
             /\ selected' = Sample(list, start, stride)
             /\ subgraph_nodes' = NodesOf(Sample(list, start, stride))
    /\ sub_pc' = "induce"
    /\ UNCHANGED <<fullgraph, weight, to_visit, weighted, source_desc, target_desc, mapping_df,
                   relabel_dict, source, target, paths, induced, sub_result>>
    /\ UNCHANGED othersSub

\* Lines 594-599.
UseAllPaths ==
    /\ sub_pc = "select"
    /\ ~ExceedsCap(Cardinality(paths))
    /\ selected' = paths
    /\ subgraph_nodes' = NodesOf(paths)
    /\ sub_pc' = "induce"
    /\ UNCHANGED <<fullgraph, weight, to_visit, weighted, source_desc, target_desc, mapping_df,
                   relabel_dict, source, target, paths, induced, sub_result>>
    /\ UNCHANGED othersSub

\* Lines 600-602.
InduceAndRelabel ==
    /\ sub_pc = "induce"
    /\ induced' = Subgraph(subgraph_nodes)
    /\ sub_result' =
          [kind |-> "ok",
           nodes |-> {Relabel(n) : n \in Subgraph(subgraph_nodes).nodes},
           edges |-> {[e EXCEPT !.u = Relabel(e.u), !.v = Relabel(e.v)] :
                         e \in Subgraph(subgraph_nodes).edges}]
    /\ sub_pc' = "done"
    /\ UNCHANGED <<fullgraph, weight, to_visit, weighted, source_desc, target_desc, mapping_df,
                   relabel_dict, source, target, paths, selected, subgraph_nodes>>
    /\ UNCHANGED othersSub

(***************************************************************************)
(* Inputs of create_subgraph.                                              *)
(***************************************************************************)
chem1 == ChemicalById(1)
chem2 == ChemicalById(2)
\* A protein whose identifier happens to equal chem2's.
prot1 == Entity("Protein", "uniprot", 2, 202)

\* The parallel edges u -> v with the stored weights ws[1], ws[2], ...
EdgesBetween(u, v, ws) ==
    {[u |-> u, v |-> v, key |-> i - 1, stored |-> ws[i]] : i \in DOMAIN ws}

WeightSeqs == UNION {[1..k -> WeightValues] : k \in 0..MaxParallel}

\* The graphs over chem1, chem2 and prot1 with up to MaxParallel edges
\* chem1 -> prot1, chem1 -> chem2 and chem2 -> prot1.
SmallGraphs ==
    {[nodes |-> {chem1, chem2, prot1},
      edges |-> EdgesBetween(chem1, prot1, a) \cup EdgesBetween(chem1, chem2, b)
                    \cup EdgesBetween(chem2, prot1, c)] :
        a \in WeightSeqs, b \in WeightSeqs, c \in WeightSeqs}

Single == <<9>>
Triangle ==
    [nodes |-> {chem1, chem2, prot1},
     edges |-> EdgesBetween(chem1, prot1, Single) \cup EdgesBetween(chem1, chem2, Single)
                   \cup EdgesBetween(chem2, prot1, Single)]
Chain ==
    [nodes |-> {chem1, chem2, prot1},
     edges |-> EdgesBetween(chem1, chem2, Single) \cup EdgesBetween(chem2, prot1, Single)]

\* chem1 -> a layer of chemicals -> a layer of proteins -> a layer of
\* phenotypes -> prot1, every node joined to every node of the next layer:
\* a * b * c shortest paths.
Layer1(a) == {ChemicalById(10 + i) : i \in 1..a}
Layer2(b) == {Entity("Protein", "uniprot", 20 + i, 220 + i) : i \in 1..b}
Layer3(c) == {Entity("Pathology", "umls", 30 + i, 230 + i) : i \in 1..c}
Joined(U, V) == UNION {EdgesBetween(u, v, Single) : <<u, v>> \in U \X V}
Layered(a, b, c) ==
    [nodes |-> {chem1, prot1} \cup Layer1(a) \cup Layer2(b) \cup Layer3(c),
     edges |-> Joined({chem1}, Layer1(a)) \cup Joined(Layer1(a), Layer2(b))
                   \cup Joined(Layer2(b), Layer3(c)) \cup Joined(Layer3(c), {prot1})]

Row(namespace, identifier, name, node_id) ==
    [namespace |-> namespace, identifier |-> identifier, name |-> name, node_id |-> node_id]

\* Mapping files: chem1's row is complete, lacks its name, lacks its node_id
\* or is missing; chem2's row is complete or missing; prot1's row is there.
Chem1Rows ==
    {<<Row("pubchem.compound", 1, 101, 51)>>, <<Row("pubchem.compound", 1, Absent, 51)>>,
     <<Row("pubchem.compound", 1, 101, Absent)>>, <<>>}
Chem2Rows == {<<Row("pubchem.compound", 2, 102, 52)>>, <<>>}
Prot1Row == <<Row("uniprot", 2, 202, 53)>>
MappingFiles == {r1 \o r2 \o Prot1Row : r1 \in Chem1Rows, r2 \in Chem2Rows}
CompleteMapping ==
    <<Row("pubchem.compound", 1, 101, 51), Row("pubchem.compound", 2, 102, 52)>> \o Prot1Row

InitSub ==
    /\ IdleSplit
    /\ IdleEval
    /\ \/ \* every weighting of a small multigraph
          /\ fullgraph \in SmallGraphs
          /\ weighted \in BOOLEAN
          /\ source_desc = Desc("chemical", 1, Absent)
          /\ target_desc = Desc("protein", 2, 202)
          /\ mapping_df = CompleteMapping
       \/ \* every mapping file
          /\ fullgraph \in {Triangle, Chain}
          /\ weighted = FALSE
          /\ source_desc \in {Desc("chemical", 1, Absent), Desc("chemical", 2, Absent)}
          /\ target_desc \in {Desc("protein", 2, 202), Desc("chemical", 2, Absent)}
          /\ mapping_df \in MappingFiles
       \/ \* every pair of entity types
          /\ fullgraph = Chain
          /\ weighted = FALSE
          /\ source_desc \in {Desc(t, 1, Absent) : t \in EntityTypes \cup {"gene"}}
          /\ target_desc \in {Desc(t, 2, 202) : t \in EntityTypes \cup {"gene"}}
          /\ mapping_df = CompleteMapping
       \/ \* every number of shortest paths a layered graph can have
          /\ \E a \in 1..MaxWidth, b \in 1..MaxWidth, c \in 1..MaxWidth :
                fullgraph = Layered(a, b, c)
          /\ weighted = FALSE
          /\ source_desc = Desc("chemical", 1, Absent)
          /\ target_desc = Desc("protein", 2, 202)
          /\ mapping_df = CompleteMapping
    /\ weight = [e \in fullgraph.edges |-> e.stored]
    /\ to_visit = fullgraph.edges
    /\ relabel_dict = <<>>
    /\ source = <<>>
    /\ target = <<>>
    /\ paths = {}
    /\ selected = {}
    /\ subgraph_nodes = {}
    /\ induced = NoGraph
    /\ sub_pc = "call"
    /\ sub_result = SubOutcome("running", NoGraph)

NextSub ==
    \/ TransformVisit
    \/ ReadMapping
    \/ ResolveSource
    \/ ResolveSourceFails
    \/ ResolveTarget
    \/ ResolveTargetFails
    \/ ShortestPaths
    \/ ShortestPathsFails
    \/ SamplePaths
    \/ UseAllPaths
    \/ InduceAndRelabel

SpecSub == InitSub /\ [][NextSub]_vars

(***************************************************************************)
(* Properties of create_subgraph.                                          *)
(***************************************************************************)
\* C5: once the weight loop has finished, every parallel edge between every
\* ordered node pair costs exactly 1 minus the weight it was stored with.
C5_CostIsOneMinusStored ==
    (sub_pc # "idle" /\ to_visit = {}) =>
        \A e \in fullgraph.edges : weight[e] = UnitWeight - e.stored

\* C6: when there are more than 100 shortest paths, exactly 10 distinct paths
\* of them build the node set; when there are 100 or fewer, every shortest
\* path does.
C6_SamplingCap ==
    sub_pc = "induce" =>
        /\ IF Cardinality(paths) > SamplingThreshold
           THEN selected \subseteq paths /\ Cardinality(selected) = SampleSize
           ELSE selected = paths
        /\ subgraph_nodes = NodesOf(selected)

\* More than 100 shortest paths were found and 10 of them were drawn.
C6_Witness ==
    /\ sub_pc = "induce"
    /\ Cardinality(paths) > SamplingThreshold
    /\ Cardinality(selected) = SampleSize
    /\ selected # paths

\* C7: in the returned subgraph a pubchem.compound node whose mapping row has a
\* name appears under (pubchem.compound, name) and no longer under its
\* identifier; a node of another namespace, and a chemical whose mapping row
\* has no name, appears under its original identity.
C7_RelabelByName ==
    (sub_pc = "done" /\ sub_result.kind = "ok") =>
        \A node \in induced.nodes :
            LET named == {i \in DOMAIN mapping_df :
                             /\ mapping_df[i].namespace = "pubchem.compound"
                             /\ mapping_df[i].identifier = node.identifier
                             /\ mapping_df[i].name # Absent}
            IN IF node.namespace = "pubchem.compound" /\ named # {}
               THEN /\ node \notin sub_result.nodes
                    /\ \E i \in named : ChemicalByName(mapping_df[i].name) \in sub_result.nodes
               ELSE node \in sub_result.nodes

\* C15: before relabeling, the nodes of the extracted subgraph are exactly the
\* nodes on the selected shortest paths, source and target among them, and its
\* edges are exactly the full graph's edges with both endpoints in that set.
C15_InducedOnPathNodes ==
    (sub_pc = "done" /\ sub_result.kind = "ok") =>
        /\ selected # {}
        /\ induced.nodes = UNION {{q[i] : i \in 1..Len(q)} : q \in selected}
        /\ source \in induced.nodes
        /\ target \in induced.nodes
        /\ induced.edges =
              {e \in fullgraph.edges : e.u \in induced.nodes /\ e.v \in induced.nodes}

\* A subgraph built from several paths that has an edge none of them walks.
C15_Witness ==
    /\ sub_pc = "done"
    /\ sub_result.kind = "ok"
    /\ Cardinality(selected) >= 2
    /\ \E e \in induced.edges :
          \A q \in selected : \A i \in 1..(Len(q) - 1) : {e.u, e.v} # {q[i], q[i + 1]}

\* C11: a source_type or target_type other than chemical, protein, phenotype
\* makes create_subgraph raise its type error and return no subgraph, whatever
\* the other type is; no shortest-path search has been made by then, and an
\* invalid source type is reported without the target type being examined.
C11_InvalidTypeFails ==
    LET valid == {"chemical", "protein", "phenotype"}
    IN (sub_pc # "idle" /\ (source_desc.type \notin valid \/ target_desc.type \notin valid)) =>
          /\ sub_pc \in {"call", "source", "target", "done"}
          /\ paths = {}
          /\ sub_pc = "done" =>
                /\ sub_result.nodes = {} /\ sub_result.edges = {}
                /\ IF source_desc.type \notin valid
                   THEN sub_result.kind = "Source type is not valid!" /\ target = <<>>
                   ELSE sub_result.kind = "Target type is not valid!"

\* Both types are invalid and the call has failed on the source type.
C11_Witness ==
    /\ source_desc.type = "gene"
    /\ target_desc.type = "gene"
    /\ sub_pc = "done"
    /\ sub_result.kind = "Source type is not valid!"

(***************************************************************************)
(* do_evaluation, do_optimization, train_model and repeat_experiment: the  *)
(* calls they make into bionev, optuna, networkx and json, in order.       *)
(***************************************************************************)
\* Bound: the largest n of repeat_experiment.
MaxTrials == 3

Methods == {"HOPE", "DeepWalk", "node2vec", "GraRep", "SDNE", "LINE"}
Tasks == {"link_prediction", "node_classification"}

\* Python's "not labels_file": None and the empty string are false.
Falsy(x) == x \in {None, ""}

Optional(cond, call) == IF cond THEN <<call>> ELSE <<>>

\* Lines 159-162 and 401-404.
GetEmbeddings(m) == IF m = "LINE" THEN "get_embeddings_train" ELSE "get_embeddings"

\* Lines 139-203: what do_evaluation does after it has its graphs or labels.
DoEvaluationBody(task, m, modelPath, embPath, evalFile) ==
    <<"embedding_training">>
    \o Optional(modelPath # None, "save_model")
    \o Optional(embPath # None, "save_embeddings")
    \o <<GetEmbeddings(m)>>
    \o <<IF task = "link_prediction" THEN "do_link_prediction" ELSE "do_node_classification">>
    \o Optional(evalFile # None, "json.dump")

\* Lines 241-346: the optimization routine of a method, LINE's for any other.
OptimizationOf(m) ==
    IF m = "HOPE" THEN "hope_optimization"
    ELSE IF m = "DeepWalk" THEN "deepwalk_optimization"
    ELSE IF m = "node2vec" THEN "node2vec_optimization"
    ELSE IF m = "GraRep" THEN "grarep_optimization"
    ELSE IF m = "SDNE" THEN "sdne_optimization"
    ELSE "line_optimization"

\* Lines 241-349.
DoOptimizationBody(m) == <<OptimizationOf(m), "study_to_json", "json.dump">>

\* Lines 381-419.
TrainModelBody(task, m, modelPath) ==
    <<"embedding_training">>
    \o Optional(modelPath # None, "save_model")
    \o <<"save_embeddings", "read_edgelist", GetEmbeddings(m)>>
    \o <<IF task = "link_prediction" THEN "create_prediction_model"
         ELSE "do_node_classification">>

\* Lines 96-121: the keyword-only parameters of do_evaluation without a default.
DoEvaluationRequired == {"input_path", "method", "prediction_task"}

\* Lines 506-526: the keywords repeat_experiment passes to do_evaluation.
RepeatExperimentPasses ==
    {"input_path", "training_path", "testing_path", "method", "dimensions",
     "number_walks", "walk_length", "window_size", "p", "q", "alpha", "beta",
     "epochs", "kstep", "order", "embeddings_path", "predictive_model_path",
     "evaluation_file", "weighted"}

EvalOutcome(kind, value) == [kind |-> kind, value |-> value]

othersEval == <<varsSplit, varsSub>>

\* Lines 123-131: link prediction builds its graphs.
\* Lines 135-137: node classification with a labels file reads the labels.
EnterDoEvaluation ==
    /\ ev_pc = "call"
    /\ fn = "do_evaluation"
    /\ prediction_task = "link_prediction" \/ ~Falsy(labels_file)
    /\ calls' = Append(calls, IF prediction_task = "link_prediction"
                              THEN "create_graphs" ELSE "read_node_labels")
    /\ todo' = DoEvaluationBody(prediction_task, method, training_model_path,
                                embeddings_path, evaluation_file)
    /\ ev_pc' = "body"
    /\ UNCHANGED <<fn, prediction_task, labels_file, method, training_model_path,
                   embeddings_path, evaluation_file, n_trials, trial, all_results, ev_result>>
    /\ UNCHANGED othersEval

\* A test of the labels file that comes only after the embedding is trained.
DoEvaluationNoLabelsLate ==
    /\ ev_pc = "call"
    /\ fn = "do_evaluation"
    /\ prediction_task # "link_prediction"
    /\ Falsy(labels_file)
    /\ calls' = Append(calls, "embedding_training")
    /\ ev_result' = EvalOutcome("ValueError", <<>>)
    /\ ev_pc' = "done"
    /\ UNCHANGED <<fn, prediction_task, labels_file, method, training_model_path,
                   embeddings_path, evaluation_file, n_trials, todo, trial, all_results>>
    /\ UNCHANGED othersEval

\* Lines 132-134.
DoEvaluationNoLabels ==
    /\ ev_pc = "call"
    /\ fn = "do_evaluation"
    /\ prediction_task # "link_prediction"
    /\ Falsy(labels_file)
    /\ ev_result' = EvalOutcome("ValueError", <<>>)
    /\ ev_pc' = "done"
    /\ UNCHANGED <<fn, prediction_task, labels_file, method, training_model_path,
                   embeddings_path, evaluation_file, n_trials, calls, todo, trial, all_results>>
    /\ UNCHANGED othersEval

\* Lines 224-234 and 237-239.
EnterDoOptimization ==
    /\ ev_pc = "call"
    /\ fn = "do_optimization"
    /\ prediction_task = "link_prediction" \/ ~Falsy(labels_file)
    /\ calls' = calls \o <<"np.random.seed", "random.seed",
                           IF prediction_task = "link_prediction"
                           THEN "create_graphs" ELSE "read_node_labels">>
    /\ todo' = DoOptimizationBody(method)
    /\ ev_pc' = "body"
    /\ UNCHANGED <<fn, prediction_task, labels_file, method, training_model_path,
                   embeddings_path, evaluation_file, n_trials, trial, all_results, ev_result>>
    /\ UNCHANGED othersEval

\* Lines 224-227 and 235-236.
DoOptimizationNoLabels ==
    /\ ev_pc = "call"
    /\ fn = "do_optimization"
    /\ prediction_task # "link_prediction"
    /\ Falsy(labels_file)
    /\ calls' = calls \o <<"np.random.seed", "random.seed">>
    /\ ev_result' = EvalOutcome("ValueError", <<>>)
    /\ ev_pc' = "done"
    /\ UNCHANGED <<fn, prediction_task, labels_file, method, training_model_path,
                   embeddings_path, evaluation_file, n_trials, todo, trial, all_results>>
    /\ UNCHANGED othersEval

\* Lines 376-380.
EnterTrainModel ==
    /\ ev_pc = "call"
    /\ fn = "train_model"
    /\ prediction_task # "node_classification" \/ ~Falsy(labels_file)
    /\ calls' = calls \o Optional(prediction_task = "node_classification", "read_node_labels")
    /\ todo' = TrainModelBody(prediction_task, method, training_model_path)
    /\ ev_pc' = "body"
    /\ UNCHANGED <<fn, prediction_task, labels_file, method, training_model_path,
                   embeddings_path, evaluation_file, n_trials, trial, all_results, ev_result>>
    /\ UNCHANGED othersEval

\* Lines 377-379.
TrainModelNoLabels ==
    /\ ev_pc = "call"
    /\ fn = "train_model"
    /\ prediction_task = "node_classification"
    /\ Falsy(labels_file)
    /\ ev_result' = EvalOutcome("ValueError", <<>>)
    /\ ev_pc' = "done"
    /\ UNCHANGED <<fn, prediction_task, labels_file, method, training_model_path,
                   embeddings_path, evaluation_file, n_trials, calls, todo, trial, all_results>>
    /\ UNCHANGED othersEval

\* The next library call of the body.
BodyStep ==
    /\ ev_pc = "body"
    /\ todo # <<>>
    /\ calls' = Append(calls, Head(todo))
    /\ todo' = Tail(todo)
    /\ UNCHANGED <<fn, prediction_task, labels_file, method, training_model_path,
                   embeddings_path, evaluation_file, n_trials, trial, all_results, ev_pc,
                   ev_result>>
    /\ UNCHANGED othersEval

\* Lines 203, 349 and 419: the function returns.
BodyReturn ==
    /\ ev_pc = "body"
    /\ todo = <<>>
    /\ ev_result' = EvalOutcome("ok", <<>>)
    /\ ev_pc' = "done"
    /\ UNCHANGED <<fn, prediction_task, labels_file, method, training_model_path,
                   embeddings_path, evaluation_file, n_trials, calls, todo, trial, all_results>>
    /\ UNCHANGED othersEval

\* Lines 505-528, one pass of the comprehension: do_evaluation is called with
\* the keywords of lines 507-525.  Python binds the arguments before it runs
\* the body and raises TypeError when a required keyword is missing.
RepeatTrial ==
    /\ ev_pc = "call"
    /\ fn = "repeat_experiment"
    /\ trial < n_trials
    /\ IF DoEvaluationRequired \subseteq RepeatExperimentPasses
       THEN /\ calls' = calls
                   \o <<IF prediction_task = "link_prediction"
                        THEN "create_graphs" ELSE "read_node_labels">>
                   \o DoEvaluationBody(prediction_task, method, None, None, None)
            /\ all_results' = [i \in 0..trial |-> IF i = trial THEN Len(calls') ELSE all_results[i]]
            /\ trial' = trial + 1
            /\ UNCHANGED <<ev_pc, ev_result>>
       ELSE /\ ev_result' = EvalOutcome("TypeError", <<>>)
            /\ ev_pc' = "done"
            /\ UNCHANGED <<calls, all_results, trial>>
    /\ UNCHANGED <<fn, prediction_task, labels_file, method, training_model_path,
                   embeddings_path, evaluation_file, n_trials, todo>>
    /\ UNCHANGED othersEval

\* Lines 529-531, after the last pass.
RepeatFinish ==
    /\ ev_pc = "call"
    /\ fn = "repeat_experiment"
    /\ trial >= n_trials
    /\ calls' = calls \o Optional(evaluation_file # None, "json.dump")
    /\ ev_result' = EvalOutcome("ok", all_results)
    /\ ev_pc' = "done"
    /\ UNCHANGED <<fn, prediction_task, labels_file, method, training_model_path,
                   embeddings_path, evaluation_file, n_trials, todo, trial, all_results>>
    /\ UNCHANGED othersEval

InitEval ==
    /\ IdleSplit
    /\ IdleSub
    /\ \/ /\ fn \in {"do_evaluation", "do_optimization", "train_model"}
          /\ prediction_task \in Tasks
          /\ labels_file \in {None, "", "labels.tsv"}
          /\ method \in Methods
          /\ training_model_path \in {None, "model.pkl"}
          /\ embeddings_path \in {None, "embeddings.tsv"}
          /\ evaluation_file \in {None, "evaluation.json"}
          /\ n_trials = 0
       \/ /\ fn = "repeat_experiment"
          /\ prediction_task = None
          /\ labels_file = None
          /\ method \in Methods
          /\ training_model_path = None
          /\ embeddings_path = None
          /\ evaluation_file \in {None, "evaluation.json"}
          /\ n_trials \in 0..MaxTrials
    /\ calls = <<>>
    /\ todo = <<>>
    /\ trial = 0
    /\ all_results = <<>>
    /\ ev_pc = "call"
    /\ ev_result = EvalOutcome("running", <<>>)

NextEval ==
    \/ EnterDoEvaluation
    \/ DoEvaluationNoLabels
    \/ EnterDoOptimization
    \/ DoOptimizationNoLabels
    \/ EnterTrainModel
    \/ TrainModelNoLabels
    \/ BodyStep
    \/ BodyReturn
    \/ RepeatTrial
    \/ RepeatFinish

SpecEval == InitEval /\ [][NextEval]_vars

(***************************************************************************)
(* Properties of the training functions.                                   *)
(***************************************************************************)
\* C9: repeat_experiment with n >= 1 runs exactly n trials, returns a mapping
\* with the keys 0..n-1, and writes the report, when an evaluation file is
\* given, only after the last trial.
C9_RunsAllTrials ==
    (fn = "repeat_experiment" /\ n_trials >= 1 /\ ev_pc = "done") =>
        /\ ev_result.kind = "ok"
        /\ DOMAIN ev_result.value = 0..(n_trials - 1)
        /\ Cardinality({i \in DOMAIN calls : calls[i] = "embedding_training"}) = n_trials
        /\ \A i \in DOMAIN calls : calls[i] = "json.dump" => i = Len(calls)
        /\ evaluation_file # None => calls[Len(calls)] = "json.dump"

\* C10: for node classification without a labels file, do_evaluation,
\* do_optimization and train_model raise ValueError, and up to then no embedding
\* is trained, nothing is evaluated or optimized, and no model, embedding or
\* report is written.
C10_NoLabelsFailsFast ==
    (/\ fn \in {"do_evaluation", "do_optimization", "train_model"}
     /\ prediction_task = "node_classification"
     /\ labels_file \in {None, ""}) =>
        /\ \A i \in DOMAIN calls : calls[i] \in {"np.random.seed", "random.seed"}
        /\ ev_pc \in {"call", "done"}
        /\ ev_pc = "done" => ev_result.kind = "ValueError"

\* Each of the three functions has raised for node classification without
\* labels: the state of one call that has.
C10_Witness ==
    /\ fn \in {"do_evaluation", "do_optimization", "train_model"}
    /\ prediction_task = "node_classification"
    /\ labels_file \in {None, ""}
    /\ ev_pc = "done"
    /\ ev_result.kind = "ValueError"

====
